---- MODULE Spec2Model ----
(***************************************************************************)
(* Model of the Issuu scraper: src/issue_scraper.py (module import state,  *)
(* scrape_issuu_results, scrape_with_requests, scrape_with_playwright,     *)
(* init_playwright) and of the batch orchestrator process_companies of     *)
(* src/streamlit_app.py.                                                   *)
(*                                                                         *)
(* Strings are sequences of one-character strings.  Every coroutine of a   *)
(* run is a task; task[t] holds its position (pc), its locals and a log of *)
(* what it did to the outside world.                                       *)
(***************************************************************************)
EXTENDS Integers, Sequences, FiniteSets, TLC

VARIABLES
    entry,                \* which function the caller invoked
    importable,           \* the environment: which packages can be imported
    PLAYWRIGHT_AVAILABLE, \* module global, issue_scraper.py:14/16
    REQUESTS_AVAILABLE,   \* module global, issue_scraper.py:25/27, or Undefined
    companies,            \* process_companies: the input list
    batch_size,           \* process_companies: the concurrency limit
    i,                    \* process_companies: loop variable of line 48
    batch,                \* process_companies: task indices of the current chunk
    results,              \* process_companies: the list built at lines 46-70
    opc,                  \* process_companies: position of the orchestrator
    chunks,               \* history: the chunks handed to asyncio.gather so far
    task                  \* the scraper coroutines, by index of the company

vars == <<entry, importable, PLAYWRIGHT_AVAILABLE, REQUESTS_AVAILABLE,
          companies, batch_size, i, batch, results, opc, chunks, task>>

----------------------------------------------------------------------------
(* Bounds *)

\* longest input list given to process_companies
MaxCompanies == 4
\* largest concurrency limit given to process_companies
MaxBatch == 3
\* most result cards on a page fetched by a single scraper call
MaxCards == 3
\* most result cards on a page fetched by a scraper task of a batch
MaxBatchCards == 1

----------------------------------------------------------------------------
(* Values *)

Undefined == "<undefined>"
NoElem == "<absent>"
Origin == "https://issuu.com"
OriginSlash == "https://issuu.com/"

Whitespace == {" "}

Min(a, b) == IF a < b THEN a ELSE b

RECURSIVE lstrip(_)
lstrip(s) ==
    IF s # <<>> /\ Head(s) \in Whitespace THEN lstrip(Tail(s)) ELSE s

RECURSIVE rstrip(_)
rstrip(s) ==
    IF s # <<>> /\ s[Len(s)] \in Whitespace
    THEN rstrip(SubSeq(s, 1, Len(s) - 1))
    ELSE s

\* str.strip()
strip(s) == rstrip(lstrip(s))

\* company names a single call is made with
Names == { <<>>, <<" ">>, <<" ", " ">>, <<"a">>, <<" ", "a">>, <<"A", "b">> }

\* company names of a batch
BatchNames == { <<" ">>, <<"a">>, <<"A", "b">> }

RECURSIVE SeqsUpTo(_, _)
SeqsUpTo(S, n) ==
    IF n = 0 THEN { <<>> }
    ELSE LET shorter == SeqsUpTo(S, n - 1)
         IN  shorter \cup { Append(s, x) : s \in { q \in shorter : Len(q) = n - 1 }, x \in S }

----------------------------------------------------------------------------
(* Module import, issue_scraper.py:11-28 *)

\* REQUESTS_AVAILABLE is assigned only in the branch taken when Playwright
\* failed to import; otherwise the name is never bound.
ModuleRequestsAvailable(imp) ==
    IF ~imp.playwright
    THEN IF imp.requests THEN "True" ELSE "False"
    ELSE Undefined

ModulePlaywrightAvailable(imp) == imp.playwright

----------------------------------------------------------------------------
(* Exceptions *)

\* str(exception)
ExcStr(e) ==
    CASE e = "NameError" -> "name 'REQUESTS_AVAILABLE' is not defined"
      [] e = "ValueError" -> "range() arg 3 must not be zero"
      [] e = "RuntimeError" -> "Could not initialize Playwright browser. Falling back to requests."
      [] OTHER -> e

Empty == [m |-> <<>>, n |-> <<>>]

----------------------------------------------------------------------------
(* Static retriever, scrape_with_requests *)

\* the result containers of a fetched document: h3 is the text of the first
\* h3 of the card (NoElem: no h3), a is the href of its first anchor (NoElem:
\* no anchor, "<nohref>": an anchor without href)
StaticCards ==
    { [h3 |-> "t1", a |-> "/d1"],
      [h3 |-> "t2", a |-> "/d2"],
      [h3 |-> "", a |-> "/d1"],
      [h3 |-> NoElem, a |-> "/d1"],
      [h3 |-> "t1", a |-> NoElem],
      [h3 |-> "t1", a |-> "<nohref>"] }

\* the result containers of the documents fetched by the tasks of a batch
BatchStaticCards ==
    { [h3 |-> "t1", a |-> "/d1"],
      [h3 |-> "t1", a |-> NoElem] }

\* lines 252-263: one card; KeyError on a missing href is caught per item
ParseCard(c) ==
    IF c.h3 # NoElem /\ c.a # NoElem /\ c.a # "<nohref>"
    THEN << [title |-> c.h3, publication_link |-> <<Origin, c.a>>] >>
    ELSE <<>>

RECURSIVE ParseStatic(_)
ParseStatic(page) ==
    IF page = <<>> THEN <<>>
    ELSE ParseCard(Head(page)) \o ParseStatic(Tail(page))

\* what requests.get / raise_for_status can do
Responses(cards, maxCards) ==
    { [kind |-> "exception", page |-> <<>>],
      [kind |-> "status_error", page |-> <<>>] }
    \cup { [kind |-> "ok", page |-> p] : p \in SeqsUpTo(cards, maxCards) }

\* lines 229-271: the outcome of the whole function for one HTTP response.
\* Every exception is caught at line 269.
RequestsOutcome(avail, resp) ==
    IF avail # "True" THEN [kind |-> "return", val |-> Empty]
    ELSE IF resp.kind # "ok" THEN [kind |-> "return", val |-> Empty]
    ELSE [kind |-> "return", val |-> [m |-> ParseStatic(resp.page), n |-> <<>>]]

----------------------------------------------------------------------------
(* Match classifier: calculate_similarity, lines 43-44, and its
   normalisation, lines 194-196 *)

\* str.lower(), one character
LowerChar(c) ==
    CASE c = "A" -> "a"
      [] c = "B" -> "b"
      [] c = "C" -> "c"
      [] OTHER -> c

Lower(s) == [k \in 1..Len(s) |-> LowerChar(s[k])]

\* str.replace(x, ""), x one element
RECURSIVE Without(_, _)
Without(s, x) ==
    IF s = <<>> THEN <<>>
    ELSE IF Head(s) = x THEN Without(Tail(s), x)
    ELSE <<Head(s)>> \o Without(Tail(s), x)

\* .lower().replace(" ", "").replace(".", "")
Domain(s) == Without(Without(Lower(s), " "), ".")

\* length of the common prefix of a[ia..ahi] and b[ib..bhi]
RECURSIVE CommonRun(_, _, _, _, _, _)
CommonRun(a, b, ia, ib, ahi, bhi) ==
    IF ia > ahi \/ ib > bhi \/ a[ia] # b[ib] THEN 0
    ELSE 1 + CommonRun(a, b, ia + 1, ib + 1, ahi, bhi)

\* SequenceMatcher.find_longest_match on a[alo..ahi], b[blo..bhi] (inclusive,
\* 1-based): the longest block, the earliest in a, then the earliest in b
FindLongestMatch(a, b, alo, ahi, blo, bhi) ==
    LET cands == { <<ia, ib, CommonRun(a, b, ia, ib, ahi, bhi)>> :
                       ia \in alo..ahi, ib \in blo..bhi }
        Better(x, y) ==
            \/ x[3] > y[3]
            \/ x[3] = y[3] /\ x[1] < y[1]
            \/ x[3] = y[3] /\ x[1] = y[1] /\ x[2] <= y[2]
    IN  IF cands = {} THEN <<alo, blo, 0>>
        ELSE CHOOSE x \in cands : \A y \in cands : Better(x, y)

\* SequenceMatcher.get_matching_blocks: the total size of the blocks
RECURSIVE MatchingTotal(_, _, _, _, _, _)
MatchingTotal(a, b, alo, ahi, blo, bhi) ==
    LET m == FindLongestMatch(a, b, alo, ahi, blo, bhi)
    IN  IF m[3] = 0 THEN 0
        ELSE m[3]
             + MatchingTotal(a, b, alo, m[1] - 1, blo, m[2] - 1)
             + MatchingTotal(a, b, m[1] + m[3], ahi, m[2] + m[3], bhi)

\* SequenceMatcher(None, a.lower(), b.lower()).ratio() as the pair
\* <<2*M, T>>; the ratio of two empty strings is 1.0
calculate_similarity(a, b) ==
    LET la == Lower(a)
        lb == Lower(b)
    IN  IF Len(la) + Len(lb) = 0 THEN <<1, 1>>
        ELSE <<2 * MatchingTotal(la, lb, 1, Len(la), 1, Len(lb)), Len(la) + Len(lb)>>

\* similarity_threshold = 0.8, as the fraction 4/5
ThresholdNum == 4
ThresholdDen == 5

\* line 198: similarity >= similarity_threshold
AboveThreshold(sim) == sim[1] * ThresholdDen > ThresholdNum * sim[2]

AtLeastThreshold(sim) == sim[1] * ThresholdDen >= ThresholdNum * sim[2]

----------------------------------------------------------------------------
(* Dynamic retriever: extraction, deduplication, classification *)

\* the result cards of a rendered page, as the script of lines 154-176 reads
\* them: title is the trimmed text of the title element (NoElem: none),
\* authorLink and publicationLink are href attributes (<<>>: none or empty),
\* price is the trimmed text of the price element
DynCards ==
    { [title |-> "t1", authorLink |-> <<"a", "b">>, price |-> "$1",
       publicationLink |-> <<"/d1">>],
      [title |-> "t1", authorLink |-> <<"a", "b", "x">>, price |-> "$2",
       publicationLink |-> <<"https://", "d2">>],
      [title |-> "T1", authorLink |-> <<"A", ".", "b">>, price |-> "$1",
       publicationLink |-> <<"/d3">>],
      [title |-> "t2", authorLink |-> <<"x">>, price |-> "$1",
       publicationLink |-> <<"/d4">>],
      [title |-> "", authorLink |-> <<"a", "b">>, price |-> "$1",
       publicationLink |-> <<"/d5">>],
      [title |-> "t2", authorLink |-> <<>>, price |-> "$1",
       publicationLink |-> <<"/d6">>] }

\* line 165: title && authorLink && price && publicationLink
CardComplete(c) ==
    /\ c.title # NoElem /\ c.title # ""
    /\ c.authorLink # <<>>
    /\ c.price # ""
    /\ c.publicationLink # <<>>

\* lines 166-171
CardRecord(c) ==
    [title |-> c.title,
     author_link |-> <<OriginSlash>> \o c.authorLink,
     price |-> c.price,
     publication_link |->
         IF c.publicationLink[1] = "https://" THEN c.publicationLink
         ELSE <<OriginSlash>> \o c.publicationLink]

RECURSIVE ExtractCards(_)
ExtractCards(page) ==
    IF page = <<>> THEN <<>>
    ELSE (IF CardComplete(Head(page)) THEN <<CardRecord(Head(page))>> ELSE <<>>)
         \o ExtractCards(Tail(page))

\* lines 180-188
RECURSIVE DedupKeepingLast(_, _)
DedupKeepingLast(rs, seen_titles) ==
    IF rs = <<>> THEN <<>>
    ELSE IF \E k \in 2..Len(rs) : rs[k].title = Head(rs).title
         THEN DedupKeepingLast(Tail(rs), seen_titles)
         ELSE <<Head(rs)>> \o DedupKeepingLast(Tail(rs), seen_titles)

RECURSIVE Dedup(_, _)
Dedup(rs, seen_titles) ==
    IF rs = <<>> THEN <<>>
    ELSE IF Head(rs).title \notin seen_titles
         THEN <<Head(rs)>> \o Dedup(Tail(rs), seen_titles \cup {Head(rs).title})
         ELSE Dedup(Tail(rs), seen_titles)

\* lines 194-198, one record
IsMatch(company_name, r) ==
    AtLeastThreshold(
        calculate_similarity(Domain(company_name),
                             Domain(Without(r.author_link, OriginSlash))))

\* lines 191-203
RECURSIVE ClassifyPrepending(_, _)
ClassifyPrepending(company_name, rs) ==
    IF rs = <<>> THEN Empty
    ELSE LET rest == ClassifyPrepending(company_name, Tail(rs))
         IN  IF IsMatch(company_name, Head(rs))
             THEN [m |-> rest.m \o <<Head(rs)>>, n |-> rest.n]
             ELSE [m |-> rest.m, n |-> rest.n \o <<Head(rs)>>]

RECURSIVE Classify(_, _)
Classify(company_name, rs) ==
    IF rs = <<>> THEN Empty
    ELSE LET rest == Classify(company_name, Tail(rs))
         IN  IF IsMatch(company_name, Head(rs))
             THEN [m |-> <<Head(rs)>> \o rest.m, n |-> rest.n]
             ELSE [m |-> rest.m, n |-> <<Head(rs)>> \o rest.n]

\* lines 179-188: unique_results
UniqueResults(rs) == Dedup(rs, {})

\* lines 154-206: from the rendered page to the returned pair
PageResult(company_name, page) ==
    Classify(company_name, UniqueResults(ExtractCards(page)))

----------------------------------------------------------------------------
(* Tasks *)

Finished == {"returned", "raised"}

\* playwright, browser: the locals of scrape_with_playwright (0: None, else
\* the index of the driver / browser); ip_playwright: the local of
\* init_playwright; drivers, browsers: every driver started and browser
\* launched by the task, with its present status; pending: what the try
\* statement of lines 105-223 is about to do once its finally clause has run;
\* page: the cards page.evaluate found; extracted, unique_results: the locals
\* results (line 154) and unique_results (line 181)
NewTask(name) ==
    [pc |-> "created", name |-> name, ret |-> Empty, exc |-> "None",
     log |-> <<>>, playwright |-> 0, browser |-> 0, ip_playwright |-> 0,
     drivers |-> <<>>, browsers |-> <<>>,
     pending |-> [kind |-> "none", val |-> Empty, exc |-> "None"],
     page |-> <<>>, extracted |-> <<>>, unique_results |-> <<>>]

NoTask == [NewTask(<<>>) EXCEPT !.pc = "none"]

Returned(t, val) == [t EXCEPT !.pc = "returned", !.ret = val]
Raised(t, e) == [t EXCEPT !.pc = "raised", !.exc = e]
Logged(t, ev) == [t EXCEPT !.log = Append(@, ev)]

Did(t, ev) == \E k \in 1..Len(task[t].log) : task[t].log[k] = ev

Tasks == DOMAIN task

StaticCardsFor(e) == IF e = "process_companies" THEN BatchStaticCards ELSE StaticCards

MaxCardsFor(e) == IF e = "process_companies" THEN MaxBatchCards ELSE MaxCards

\* a coroutine runs once the event loop schedules it: directly for a single
\* call, as a member of the chunk given to gather for a batch
Scheduled(t) ==
    IF entry = "process_companies"
    THEN opc = "gather" /\ \E k \in 1..Len(batch) : batch[k] = t
    ELSE TRUE

----------------------------------------------------------------------------
(* scrape_issuu_results, lines 273-295 *)

\* line 275
NameCheckNoStrip(name) == name = <<>>

NameCheck(name) == strip(name) = <<>>

\* lines 275-279: where the function goes after its first statements
FirstStepPlaywrightFirst(name, reqAvail) ==
    IF NameCheck(name) THEN "return_empty" ELSE "check_playwright"

FirstStep(name, reqAvail) ==
    IF NameCheck(name) THEN "return_empty"
    ELSE IF reqAvail = Undefined THEN "name_error"
    ELSE IF reqAvail = "True" THEN "requests"
    ELSE "check_playwright"

\* lines 273-279: the coroutine starts
SirBegin(t) ==
    /\ task[t].pc = "created"
    /\ entry \in {"process_companies", "scrape_issuu_results"}
    /\ Scheduled(t)
    /\ LET step == FirstStep(task[t].name, REQUESTS_AVAILABLE)
       IN  task' = [task EXCEPT ![t] =
                CASE step = "return_empty" -> Returned(@, Empty)
                  [] step = "name_error" -> Raised(@, "NameError")
                  [] step = "requests" ->
                        [Logged(@, "requests_start") EXCEPT !.pc = "requests"]
                  [] OTHER ->
                        [(IF REQUESTS_AVAILABLE = "False"
                          THEN Logged(@, "requests_unavailable") ELSE @)
                            EXCEPT !.pc = "check_playwright"]]
    /\ UNCHANGED <<entry, importable, PLAYWRIGHT_AVAILABLE, REQUESTS_AVAILABLE,
                   companies, batch_size, i, batch, results, opc, chunks>>

\* lines 280-284: the call of scrape_with_requests and what line 282/283 do
\* with its outcome
SirRequests(t) ==
    /\ task[t].pc = "requests"
    /\ \E resp \in Responses(StaticCardsFor(entry), MaxCardsFor(entry)) :
         LET out == RequestsOutcome(REQUESTS_AVAILABLE, resp)
             seen == Logged(Logged(task[t], "http_get"),
                            IF resp.kind = "ok" THEN "requests_ok" ELSE "requests_failed")
         IN  task' = [task EXCEPT ![t] =
                  IF out.kind = "return"
                  THEN Returned(seen, out.val)
                  ELSE [seen EXCEPT !.pc = "check_playwright"]]
    /\ UNCHANGED <<entry, importable, PLAYWRIGHT_AVAILABLE, REQUESTS_AVAILABLE,
                   companies, batch_size, i, batch, results, opc, chunks>>

\* lines 286-295
SirCheckPlaywright(t) ==
    /\ task[t].pc = "check_playwright"
    /\ task' = [task EXCEPT ![t] =
            IF PLAYWRIGHT_AVAILABLE
            THEN [Logged(@, "playwright_start") EXCEPT !.pc = "pw_init"]
            ELSE Returned(@, Empty)]
    /\ UNCHANGED <<entry, importable, PLAYWRIGHT_AVAILABLE, REQUESTS_AVAILABLE,
                   companies, batch_size, i, batch, results, opc, chunks>>

----------------------------------------------------------------------------
(* scrape_with_playwright, lines 92-227, and init_playwright, lines 46-90 *)

OthersUnchanged ==
    UNCHANGED <<entry, importable, PLAYWRIGHT_AVAILABLE, REQUESTS_AVAILABLE,
                companies, batch_size, i, batch, results, opc, chunks>>

\* an exception reaches line 212 and is re-raised: the finally clause runs
\* with the exception pending
PendRaise(t, e) ==
    [t EXCEPT !.pc = "pw_close",
              !.pending = [kind |-> "raise", val |-> Empty, exc |-> e]]

\* a return statement inside the try: the finally clause runs with the value
\* pending
PendReturn(t, val) ==
    [t EXCEPT !.pc = "pw_close",
              !.pending = [kind |-> "return", val |-> val, exc |-> "None"]]

\* lines 208-210: an exception inside the inner try is logged and the
\* function returns [], []
ScrapeError(t) == PendReturn(t, Empty)

\* lines 70-90: where init_playwright goes when start() or launch() raised
\* at position pc: to the remediation after the first attempt, to the raise
\* of line 90 after the second
AfterAcquireFailureRetrying(pc) == "pw_install"

AfterAcquireFailure(pc) ==
    IF pc \in {"pw_start1", "pw_launch1"} THEN "pw_install" ELSE "raise"

AcquireFailed(t, ev) ==
    IF AfterAcquireFailure(t.pc) = "raise"
    THEN PendRaise(Logged(t, ev), "RuntimeError")
    ELSE [Logged(t, ev) EXCEPT !.pc = AfterAcquireFailure(t.pc)]

\* lines 127-137: the cookie dialog was dismissed, or it was absent or could
\* not be dismissed, which line 136 catches
CookieStepAborting(t, dismissed) ==
    IF dismissed THEN [Logged(t, "cookie_dismissed") EXCEPT !.pc = "pw_wait"]
    ELSE ScrapeError(Logged(t, "cookie_failed"))

CookieStep(t, dismissed) ==
    [Logged(t, IF dismissed THEN "cookie_dismissed" ELSE "cookie_failed")
        EXCEPT !.pc = "pw_wait"]

\* the caller invokes scrape_with_playwright itself
PwCall(t) ==
    /\ task[t].pc = "created"
    /\ entry = "scrape_with_playwright"
    /\ task' = [task EXCEPT ![t] =
            [Logged(@, "playwright_start") EXCEPT !.pc = "pw_init"]]
    /\ OthersUnchanged

\* lines 47-49
InitPlaywrightCheck(t) ==
    /\ task[t].pc = "pw_init"
    /\ task' = [task EXCEPT ![t] =
            IF ~PLAYWRIGHT_AVAILABLE
            THEN PendRaise(@, "RuntimeError")
            ELSE [@ EXCEPT !.pc = "pw_start1"]]
    /\ OthersUnchanged

\* lines 52 and 78: async_playwright().start()
PwStart(t) ==
    /\ task[t].pc \in {"pw_start1", "pw_start2"}
    /\ \E ok \in BOOLEAN :
         task' = [task EXCEPT ![t] =
            IF ok
            THEN [Logged(@, "driver_start") EXCEPT
                      !.drivers = Append(@, "running"),
                      !.ip_playwright = Len(task[t].drivers) + 1,
                      !.pc = IF task[t].pc = "pw_start1" THEN "pw_launch1"
                             ELSE "pw_launch2"]
            ELSE AcquireFailed(@, "start_failed")]
    /\ OthersUnchanged

\* lines 54-69 and 79-87: chromium.launch, then return playwright, browser
\* to line 106
PwLaunch(t) ==
    /\ task[t].pc \in {"pw_launch1", "pw_launch2"}
    /\ \E ok \in BOOLEAN :
         task' = [task EXCEPT ![t] =
            IF ok
            THEN [Logged(@, "launch") EXCEPT
                      !.browsers = Append(@, "open"),
                      !.browser = Len(task[t].browsers) + 1,
                      !.playwright = task[t].ip_playwright,
                      !.pc = "pw_context"]
            ELSE AcquireFailed(@, "launch_failed")]
    /\ OthersUnchanged

\* lines 70-76: the remediation, subprocess.run(..., check=True)
PwInstall(t) ==
    /\ task[t].pc = "pw_install"
    /\ \E ok \in BOOLEAN :
         task' = [task EXCEPT ![t] =
            IF ok
            THEN [Logged(@, "install") EXCEPT !.pc = "pw_start2"]
            ELSE PendRaise(Logged(@, "install_failed"), "RuntimeError")]
    /\ OthersUnchanged

\* lines 107-117: new_context, new_page
PwContext(t) ==
    /\ task[t].pc = "pw_context"
    /\ \E ok \in BOOLEAN :
         task' = [task EXCEPT ![t] =
            IF ok THEN [@ EXCEPT !.pc = "pw_goto"]
            ELSE PendRaise(@, "Error")]
    /\ OthersUnchanged

\* lines 120-123: page.goto; a failure is caught at line 208
PwGoto(t) ==
    /\ task[t].pc = "pw_goto"
    /\ \E ok \in BOOLEAN :
         task' = [task EXCEPT ![t] =
            IF ok THEN [Logged(@, "goto") EXCEPT !.pc = "pw_cookie"]
            ELSE ScrapeError(Logged(@, "goto_failed"))]
    /\ OthersUnchanged

\* lines 125-137: the cookie dialog; every failure is caught at line 136
PwCookie(t) ==
    /\ task[t].pc = "pw_cookie"
    /\ \E dismissed \in BOOLEAN :
         task' = [task EXCEPT ![t] = CookieStep(@, dismissed)]
    /\ OthersUnchanged

\* lines 139-144: wait for the result cards; a timeout is caught at line 208
PwWait(t) ==
    /\ task[t].pc = "pw_wait"
    /\ \E ok \in BOOLEAN :
         task' = [task EXCEPT ![t] =
            IF ok THEN [Logged(@, "results_visible") EXCEPT !.pc = "pw_scroll"]
            ELSE ScrapeError(Logged(@, "wait_timeout"))]
    /\ OthersUnchanged

\* lines 146-150
PwScroll(t) ==
    /\ task[t].pc = "pw_scroll"
    /\ \E ok \in BOOLEAN :
         task' = [task EXCEPT ![t] =
            IF ok THEN [@ EXCEPT !.pc = "pw_extract"]
            ELSE ScrapeError(Logged(@, "scroll_failed"))]
    /\ OthersUnchanged

\* lines 152-206: page.evaluate, deduplication, classification, return
PwExtract(t) ==
    /\ task[t].pc = "pw_extract"
    /\ \/ \E page \in SeqsUpTo(DynCards, MaxCardsFor(entry)) :
            task' = [task EXCEPT ![t] =
                PendReturn([Logged(@, "extracted") EXCEPT
                                !.page = page,
                                !.extracted = ExtractCards(page),
                                !.unique_results = UniqueResults(ExtractCards(page))],
                           PageResult(task[t].name, page))]
       \/ task' = [task EXCEPT ![t] = ScrapeError(Logged(@, "extract_failed"))]
    /\ OthersUnchanged

\* lines 218-219; an exception of close() is caught at line 222, which skips
\* line 221
PwClose(t) ==
    /\ task[t].pc = "pw_close"
    /\ IF task[t].browser # 0
       THEN \E ok \in BOOLEAN :
              task' = [task EXCEPT ![t] =
                 IF ok
                 THEN [@ EXCEPT !.browsers[task[t].browser] = "closed",
                                !.pc = "pw_stop"]
                 ELSE [Logged(@, "close_failed") EXCEPT !.pc = "pw_exit"]]
       ELSE task' = [task EXCEPT ![t].pc = "pw_stop"]
    /\ OthersUnchanged

\* lines 220-221
PwStop(t) ==
    /\ task[t].pc = "pw_stop"
    /\ IF task[t].playwright # 0
       THEN \E ok \in BOOLEAN :
              task' = [task EXCEPT ![t] =
                 IF ok
                 THEN [@ EXCEPT !.drivers[task[t].playwright] = "stopped",
                                !.pc = "pw_exit"]
                 ELSE [Logged(@, "stop_failed") EXCEPT !.pc = "pw_exit"]]
       ELSE task' = [task EXCEPT ![t].pc = "pw_exit"]
    /\ OthersUnchanged

\* how scrape_with_playwright ends once the finally clause has run: a pending
\* exception is caught at line 225
PlaywrightOutcome(pending) ==
    IF pending.kind = "raise"
    THEN [kind |-> "return", val |-> Empty, exc |-> "None"]
    ELSE [kind |-> "return", val |-> pending.val, exc |-> "None"]

\* lines 225-227, and in scrape_issuu_results lines 290-295
PwExit(t) ==
    /\ task[t].pc = "pw_exit"
    /\ LET out == PlaywrightOutcome(task[t].pending)
       IN  task' = [task EXCEPT ![t] =
              IF out.kind = "return" THEN Returned(@, out.val)
              ELSE IF entry = "scrape_with_playwright" THEN Raised(@, out.exc)
              ELSE Returned(@, Empty)]
    /\ OthersUnchanged

----------------------------------------------------------------------------
(* process_companies, streamlit_app.py:45-72 *)

\* range(0, len(companies), batch_size) at position i; a zero step is a
\* ValueError, decided by the caller of this operator
InRange(pos, n, step) ==
    IF step > 0 THEN pos < n ELSE pos > n

\* line 49: companies[i:i+batch_size], as the indices of the companies
ChunkSliceShort(pos, size, n) ==
    [k \in 1..(Min(pos + size - 1, n) - pos) |-> pos + k]

ChunkSlice(pos, size, n) ==
    [k \in 1..(Min(pos + size, n) - pos) |-> pos + k]

\* line 52: await asyncio.gather(*tasks, ...) resumes when every task is done
GatherCompleteAny(b) ==
    \E k \in 1..Len(b) : task[b[k]].pc \in Finished

GatherComplete(b) ==
    \A k \in 1..Len(b) : task[b[k]].pc \in Finished

\* line 52: return_exceptions=True
return_exceptions_off == FALSE

return_exceptions == TRUE

\* lines 54-70: the entry appended for one company
ResultEntrySwapped(t) ==
    IF task[t].pc = "raised"
    THEN [company |-> companies[t], matching_results |-> <<>>,
          non_matching_results |-> <<>>, error |-> ExcStr(task[t].exc)]
    ELSE [company |-> companies[t], matching_results |-> task[t].ret.n,
          non_matching_results |-> task[t].ret.m, error |-> "None"]

ResultEntry(t) ==
    IF task[t].pc = "raised"
    THEN [company |-> companies[t], matching_results |-> <<>>,
          non_matching_results |-> <<>>, error |-> ExcStr(task[t].exc)]
    ELSE [company |-> companies[t], matching_results |-> task[t].ret.m,
          non_matching_results |-> task[t].ret.n, error |-> "None"]

\* lines 54-70: the entries appended for a chunk
RECURSIVE CollectSkippingErrors(_)
CollectSkippingErrors(b) ==
    IF b = <<>> THEN <<>>
    ELSE (IF task[Head(b)].pc = "raised" THEN <<>> ELSE <<ResultEntry(Head(b))>>)
         \o CollectSkippingErrors(Tail(b))

Collect(b) == [k \in 1..Len(b) |-> ResultEntry(b[k])]

\* lines 48-51: the loop header, the slice, the coroutines of the chunk
PcLoop ==
    /\ entry = "process_companies"
    /\ opc = "loop"
    /\ IF batch_size = 0
       THEN /\ opc' = "raised"
            /\ UNCHANGED <<batch, chunks, task>>
       ELSE IF InRange(i, Len(companies), batch_size)
       THEN /\ batch' = ChunkSlice(i, batch_size, Len(companies))
            /\ chunks' = Append(chunks, batch')
            /\ task' = [t \in DOMAIN task |->
                           IF \E k \in 1..Len(batch') : batch'[k] = t
                           THEN NewTask(companies[t])
                           ELSE task[t]]
            /\ opc' = "gather"
       ELSE /\ opc' = "done"
            /\ UNCHANGED <<batch, chunks, task>>
    /\ UNCHANGED <<entry, importable, PLAYWRIGHT_AVAILABLE, REQUESTS_AVAILABLE,
                   companies, batch_size, i, results>>

\* lines 52-70, and the step of the loop
PcCollect ==
    /\ entry = "process_companies"
    /\ opc = "gather"
    /\ GatherComplete(batch)
    /\ IF ~return_exceptions /\ \E k \in 1..Len(batch) : task[batch[k]].pc = "raised"
       THEN /\ opc' = "raised"
            /\ UNCHANGED <<results, i>>
       ELSE /\ results' = results \o Collect(batch)
            /\ i' = i + batch_size
            /\ opc' = "loop"
    /\ UNCHANGED <<entry, importable, PLAYWRIGHT_AVAILABLE, REQUESTS_AVAILABLE,
                   companies, batch_size, batch, chunks, task>>

----------------------------------------------------------------------------
(* The runs *)

Environments == [playwright : BOOLEAN, requests : BOOLEAN]

InitModule ==
    /\ importable \in Environments
    /\ PLAYWRIGHT_AVAILABLE = ModulePlaywrightAvailable(importable)
    /\ REQUESTS_AVAILABLE = ModuleRequestsAvailable(importable)

\* asyncio.run(process_companies(companies, batch_size))
InitBatch ==
    /\ entry = "process_companies"
    /\ companies \in SeqsUpTo(BatchNames, MaxCompanies)
    /\ batch_size \in -1..MaxBatch
    /\ i = 0
    /\ batch = <<>>
    /\ results = <<>>
    /\ opc = "loop"
    /\ chunks = <<>>
    /\ task = [t \in 1..Len(companies) |-> NoTask]

\* asyncio.run(scrape_issuu_results(name)), or scrape_with_playwright(name)
InitSingle ==
    /\ entry \in {"scrape_issuu_results", "scrape_with_playwright"}
    /\ \E name \in Names :
         /\ companies = <<name>>
         /\ task = <<NewTask(name)>>
    /\ batch_size = 1
    /\ i = 0
    /\ batch = <<1>>
    /\ results = <<>>
    /\ opc = "direct"
    /\ chunks = <<>>

Init == InitModule /\ (InitBatch \/ InitSingle)

Next ==
    \/ PcLoop
    \/ PcCollect
    \/ \E t \in Tasks : SirBegin(t)
    \/ \E t \in Tasks : SirRequests(t)
    \/ \E t \in Tasks : SirCheckPlaywright(t)
    \/ \E t \in Tasks : PwCall(t)
    \/ \E t \in Tasks : InitPlaywrightCheck(t)
    \/ \E t \in Tasks : PwStart(t)
    \/ \E t \in Tasks : PwLaunch(t)
    \/ \E t \in Tasks : PwInstall(t)
    \/ \E t \in Tasks : PwContext(t)
    \/ \E t \in Tasks : PwGoto(t)
    \/ \E t \in Tasks : PwCookie(t)
    \/ \E t \in Tasks : PwWait(t)
    \/ \E t \in Tasks : PwScroll(t)
    \/ \E t \in Tasks : PwExtract(t)
    \/ \E t \in Tasks : PwClose(t)
    \/ \E t \in Tasks : PwStop(t)
    \/ \E t \in Tasks : PwExit(t)

Spec == Init /\ [][Next]_vars

----------------------------------------------------------------------------
(* Vocabulary of the properties *)

\* the task runs scrape_issuu_results
IsSir(t) == entry \in {"scrape_issuu_results", "process_companies"} /\ task[t].pc # "none"

IsBlank(s) == \A k \in 1..Len(s) : s[k] = " "

\* position of the first occurrence of an event in the log of t, 0 if none
FirstAt(t, ev) ==
    IF Did(t, ev)
    THEN CHOOSE k \in 1..Len(task[t].log) :
            /\ task[t].log[k] = ev
            /\ \A j \in 1..(k - 1) : task[t].log[j] # ev
    ELSE 0

RetrievalEvents == {"requests_start", "http_get", "playwright_start", "driver_start",
                    "launch", "goto"}

NoRetrieval(t) == \A k \in 1..Len(task[t].log) : task[t].log[k] \notin RetrievalEvents

InFlight == { t \in Tasks : task[t].pc \notin ({"none"} \cup Finished) }

Ceil(n, c) == (n + c - 1) \div c

BatchRun == entry = "process_companies" /\ batch_size >= 1

----------------------------------------------------------------------------
(* Properties *)

\* C1: scrape_issuu_results never raises, whatever can be imported and
\* whatever the retrievers do; it returns a pair, which is ([], []) when no
\* retriever produced records.
C1_NeverRaises ==
    \A t \in Tasks : IsSir(t) =>
        /\ task[t].pc # "raised"
        /\ (task[t].pc = "returned" /\ ~Did(t, "requests_ok") /\ ~Did(t, "extracted")
               => task[t].ret = Empty)

\* C2: with both backends available, a finished call for a non-blank name
\* has tried the Static retriever, and if that attempt failed it has started
\* the Dynamic retriever and returned.
C2_StaticFailureFallsBack ==
    \A t \in Tasks :
        ( /\ IsSir(t)
          /\ importable.requests /\ importable.playwright
          /\ ~IsBlank(task[t].name)
          /\ task[t].pc \in Finished )
        => /\ Did(t, "requests_start")
           /\ (Did(t, "requests_failed")
                  => Did(t, "playwright_start") /\ task[t].pc = "returned")

\* C3: with the Static backend unavailable and Playwright available, a
\* finished call for a non-blank name has started the Dynamic retriever and
\* returned; a call for a non-blank name ends without any retrieval only
\* when both backends are unavailable, and then returns ([], []).
C3_DynamicWhenStaticUnavailable ==
    \A t \in Tasks :
        ( /\ IsSir(t)
          /\ ~IsBlank(task[t].name)
          /\ task[t].pc \in Finished )
        => /\ (~importable.requests /\ importable.playwright
                  => Did(t, "playwright_start") /\ task[t].pc = "returned")
           /\ (NoRetrieval(t)
                  => /\ ~importable.requests /\ ~importable.playwright
                     /\ task[t].pc = "returned" /\ task[t].ret = Empty)

C5_BlankNameShortCircuits ==
    \A t \in Tasks : IsSir(t) /\ IsBlank(task[t].name) /\ task[t].pc # "created" =>
        /\ task[t].pc = "returned"
        /\ task[t].ret = Empty
        /\ task[t].log = <<>>
        /\ task[t].drivers = <<>> /\ task[t].browsers = <<>>

\* a whitespace-only name has been answered where a backend is available
C5_Witness ==
    \E t \in Tasks :
        /\ IsSir(t) /\ task[t].name = <<" ", " ">> /\ task[t].pc = "returned"
        /\ REQUESTS_AVAILABLE = "True"

\* C6: for a concurrency limit >= 1 process_companies does not raise and
\* returns one result per input company, the k-th for the k-th name.
C6_OneResultPerCompanyInOrder ==
    BatchRun =>
        /\ opc # "raised"
        /\ Len(results) <= Len(companies)
        /\ \A k \in 1..Len(results) : results[k].company = companies[k]
        /\ (opc = "done" => Len(results) = Len(companies))

\* a batch of three in chunks of two is done, with different names, one
\* failed scrape and one that returned
C6_Witness ==
    /\ BatchRun /\ opc = "done"
    /\ Len(companies) = 3 /\ batch_size = 2
    /\ companies[1] # companies[2]
    /\ task[1].pc = "raised" /\ task[2].pc = "returned"

\* C7: an exception of the scraper for one company is recorded in that
\* company's error field only; every company of the batch is scraped and
\* has its own result, and the batch call does not raise.
C7_FailureIsolated ==
    BatchRun =>
        /\ opc # "raised"
        /\ \A k \in 1..Len(results) :
              /\ task[k].pc \in Finished
              /\ (results[k].error # "None") = (task[k].pc = "raised")
              /\ (task[k].pc = "raised" => results[k].error = ExcStr(task[k].exc))
              /\ (task[k].pc = "returned"
                     => /\ results[k].matching_results = task[k].ret.m
                        /\ results[k].non_matching_results = task[k].ret.n)
        /\ (opc = "done" =>
               /\ Len(results) = Len(companies)
               /\ \A t \in Tasks : task[t].pc \in Finished)

\* the first company of a chunk failed, its sibling and the company of the
\* next chunk were scraped and have results
C7_Witness ==
    /\ BatchRun /\ opc = "done"
    /\ Len(companies) = 3 /\ batch_size = 2
    /\ task[1].pc = "raised" /\ results[1].error # "None"
    /\ task[2].pc = "returned" /\ results[2].error = "None"
    /\ task[3].pc = "raised"

\* C8: no task of a later chunk has started while a task of an earlier
\* chunk is unfinished, and the tasks in flight never exceed the limit.
C8_ChunkBarrier ==
    BatchRun =>
        /\ Cardinality(InFlight) <= batch_size
        /\ \A s, t \in Tasks :
              ((s - 1) \div batch_size < (t - 1) \div batch_size /\ task[t].pc # "none")
                  => task[s].pc \in Finished

\* two scrapers of the first chunk are in flight at once, the second chunk
\* has not begun
C8_Witness ==
    /\ BatchRun /\ batch_size = 2 /\ Len(companies) = 3
    /\ task[1].pc = "requests" /\ task[2].pc = "requests"
    /\ task[3].pc = "none"

\* C9: n companies with limit c >= 1 run in ceil(n/c) chunks, consecutive
\* slices of the input, each of c companies but the last, which has the
\* rest.
C9_ChunkShape ==
    BatchRun =>
        LET n == Len(companies)
            c == batch_size
        IN  /\ Len(chunks) <= Ceil(n, c)
            /\ (opc = "done" => Len(chunks) = Ceil(n, c))
            /\ \A k \in 1..Len(chunks) :
                  /\ Len(chunks[k]) = (IF k < Ceil(n, c) THEN c ELSE n - c * (Ceil(n, c) - 1))
                  /\ \A j \in 1..Len(chunks[k]) : chunks[k][j] = c * (k - 1) + j

\* three companies with limit two have run as a chunk of two, then one
C9_Witness ==
    /\ BatchRun /\ opc = "done"
    /\ Len(companies) = 3 /\ batch_size = 2
    /\ chunks = << <<1, 2>>, <<3>> >>

\* C10: when the Dynamic retriever has returned, every driver it started
\* is stopped and every browser it launched is closed.
C10_SessionReleased ==
    \A t \in Tasks : task[t].pc \in Finished =>
        /\ \A d \in 1..Len(task[t].drivers) : task[t].drivers[d] = "stopped"
        /\ \A b \in 1..Len(task[t].browsers) : task[t].browsers[b] = "closed"

----------------------------------------------------------------------------
(* Vocabulary of the properties of the Dynamic retriever *)

\* the task runs scrape_with_playwright for its caller
IsSwp(t) == entry = "scrape_with_playwright"

\* init_playwright raised: the try statement has an exception pending and
\* no browser was handed to scrape_with_playwright
SessionFailed(t) == task[t].pending.kind = "raise" /\ task[t].browser = 0

Titles(rs) == { rs[k].title : k \in 1..Len(rs) }

\* position of the first record of rs with the title
FirstIdx(rs, title) ==
    CHOOSE k \in 1..Len(rs) :
        /\ rs[k].title = title
        /\ \A j \in 1..(k - 1) : rs[j].title # title

\* the records of a returned pair, matching first
AllRecords(ret) == ret.m \o ret.n

----------------------------------------------------------------------------
(* Properties, continued *)

\* C11: when init_playwright raised (Playwright unavailable, or no browser
\* even after the remediation), scrape_with_playwright ends by raising to
\* its caller, not by returning.
C11_AcquisitionFailurePropagates ==
    \A t \in Tasks :
        IsSwp(t) /\ task[t].pc \in Finished /\ SessionFailed(t)
            => task[t].pc = "raised"

\* C12: a call of scrape_issuu_results whose Static attempt did not succeed,
\* where both backends are available, goes on to the Dynamic retriever, and
\* when that extracts a page the call returns what the Dynamic retriever
\* alone returns for that page.
C12_FallbackEqualsDynamicOnly ==
    \A t \in Tasks :
        ( /\ IsSir(t)
          /\ importable.requests /\ importable.playwright
          /\ ~IsBlank(task[t].name)
          /\ task[t].pc \in Finished
          /\ ~Did(t, "requests_ok") )
        => /\ task[t].pc = "returned"
           /\ Did(t, "playwright_start")
           /\ (Did(t, "extracted")
                  => task[t].ret = PageResult(task[t].name, task[t].page))

\* C13: the deduplicated sequence has exactly one record for every title
\* of the extracted sequence, titles compared as they are; that record is
\* the first extracted one with the title, and the records keep the order
\* in which their titles were first seen.
C13_DedupFirstOccurrence ==
    \A t \in Tasks : Did(t, "extracted") =>
        LET rs == task[t].extracted
            u == task[t].unique_results
        IN  /\ Titles(u) = Titles(rs)
            /\ \A j, k \in 1..Len(u) : j # k => u[j].title # u[k].title
            /\ \A k \in 1..Len(u) : u[k] = rs[FirstIdx(rs, u[k].title)]
            /\ \A j, k \in 1..Len(u) :
                  j < k => FirstIdx(rs, u[j].title) < FirstIdx(rs, u[k].title)

\* three records were extracted, the third a different record with the
\* title of the first and the second with a title that differs in case only;
\* two are kept
C13_Witness ==
    \E t \in Tasks :
        /\ Did(t, "extracted")
        /\ Len(task[t].extracted) = 3
        /\ task[t].extracted[1].title = "t1"
        /\ task[t].extracted[2].title = "T1"
        /\ task[t].extracted[3].title = "t1"
        /\ task[t].extracted[3] # task[t].extracted[1]
        /\ Len(task[t].unique_results) = 2
        /\ task[t].pc = "returned"

InSeq(r, rs) == \E k \in 1..Len(rs) : rs[k] = r

RecordFields == {"title", "author_link", "price", "publication_link"}

\* the two normalised strings line 197 compares for record r
CompanyDomain(t) == Domain(task[t].name)
AuthorDomain(r) == Domain(Without(r.author_link, OriginSlash))

\* M, the total size of the matching blocks, and T, the sum of the lengths
BlocksM(a, b) == MatchingTotal(a, b, 1, Len(a), 1, Len(b))
LengthsT(a, b) == Len(a) + Len(b)

\* the Dynamic retriever extracted a page and the call has returned
DynamicDone(t) == Did(t, "extracted") /\ task[t].pc = "returned"

\* C14: no two records of a pair returned by scrape_issuu_results, from
\* either retriever, have the same title.
C14_NoDuplicateTitles ==
    \A t \in Tasks : IsSir(t) /\ task[t].pc = "returned" =>
        LET rs == AllRecords(task[t].ret)
        IN  \A j, k \in 1..Len(rs) : j # k => rs[j].title # rs[k].title

\* C15: every record of a pair returned by scrape_issuu_results has the
\* four fields title, author_link, price and publication_link, and its
\* title is not empty.
C15_RecordsComplete ==
    \A t \in Tasks : IsSir(t) /\ task[t].pc = "returned" =>
        LET rs == AllRecords(task[t].ret)
        IN  \A k \in 1..Len(rs) :
               /\ DOMAIN rs[k] = RecordFields
               /\ rs[k].title # ""

\* C16: a deduplicated record is in matching if and only if 5*M >= 2*T,
\* that is 2*M/T >= 0.8, for M the total size of the matching blocks and T
\* the sum of the lengths of the two normalised strings; otherwise it is in
\* non_matching.
C16_ThresholdExact ==
    \A t \in Tasks : DynamicDone(t) =>
        \A k \in 1..Len(task[t].unique_results) :
            LET r == task[t].unique_results[k]
                a == CompanyDomain(t)
                b == AuthorDomain(r)
                atLeast == 5 * BlocksM(a, b) >= 2 * LengthsT(a, b)
            IN  /\ InSeq(r, task[t].ret.m) = atLeast
                /\ InSeq(r, task[t].ret.n) = ~atLeast

\* a record scoring exactly 4/5 is in matching and a record scoring less is
\* in non_matching
C16_Witness ==
    \E t \in Tasks :
        /\ DynamicDone(t)
        /\ \E r \in { task[t].ret.m[k] : k \in 1..Len(task[t].ret.m) } :
              /\ BlocksM(CompanyDomain(t), AuthorDomain(r)) = 2
              /\ LengthsT(CompanyDomain(t), AuthorDomain(r)) = 5
        /\ \E r \in { task[t].ret.n[k] : k \in 1..Len(task[t].ret.n) } :
              5 * BlocksM(CompanyDomain(t), AuthorDomain(r))
                  < 2 * LengthsT(CompanyDomain(t), AuthorDomain(r))

\* C17: on the Dynamic path every deduplicated record is in exactly one of
\* matching and non_matching, the two hold nothing else, and each keeps the
\* order of the deduplicated sequence.
C17_PartitionKeepsOrder ==
    \A t \in Tasks : DynamicDone(t) =>
        LET u == task[t].unique_results
            m == task[t].ret.m
            n == task[t].ret.n
            Ordered(q) == \A j, k \in 1..Len(q) :
                              j < k => FirstIdx(u, q[j].title) < FirstIdx(u, q[k].title)
        IN  /\ Len(m) + Len(n) = Len(u)
            /\ \A k \in 1..Len(u) : InSeq(u[k], m) # InSeq(u[k], n)
            /\ \A k \in 1..Len(m) : InSeq(m[k], u)
            /\ \A k \in 1..Len(n) : InSeq(n[k], u)
            /\ Ordered(m) /\ Ordered(n)

\* three records were classified, the first and the third as matching, the
\* second as non-matching
C17_Witness ==
    \E t \in Tasks :
        /\ DynamicDone(t)
        /\ Len(task[t].unique_results) = 3
        /\ task[t].ret.m = <<task[t].unique_results[1], task[t].unique_results[3]>>
        /\ task[t].ret.n = <<task[t].unique_results[2]>>

\* the events of a failure inside the inner try statement of lines 119-206
ScrapeFailures == {"goto_failed", "wait_timeout", "scroll_failed", "extract_failed"}

\* the positions of the log of t that hold one of the events
Positions(t, evs) == { k \in 1..Len(task[t].log) : task[t].log[k] \in evs }

\* C18: once a session is acquired, a failure of navigation, of the
\* result-selector wait, of scrolling or of extraction, deduplication and
\* classification leaves the return of ([], []) pending and the call returns
\* ([], []) without raising; a failed cookie dismissal is followed by the
\* result-selector wait.
C18_ScrapeFailuresCaught ==
    \A t \in Tasks : IsSwp(t) =>
        /\ Positions(t, ScrapeFailures) # {} =>
              /\ task[t].pc # "raised"
              /\ task[t].pending = [kind |-> "return", val |-> Empty, exc |-> "None"]
              /\ task[t].pc \in Finished => task[t].pc = "returned" /\ task[t].ret = Empty
        /\ \A k \in Positions(t, {"cookie_failed"}) :
              IF k = Len(task[t].log)
              THEN task[t].pc = "pw_wait"
              ELSE task[t].log[k + 1] \in {"results_visible", "wait_timeout"}

\* the cookie dialog could not be dismissed, the results became visible all
\* the same, extraction failed and the call returned ([], [])
C18_Witness ==
    \E t \in Tasks :
        /\ IsSwp(t)
        /\ Did(t, "cookie_failed") /\ Did(t, "results_visible") /\ Did(t, "extract_failed")
        /\ task[t].pc = "returned" /\ task[t].ret = Empty

\* what the caller of a finished call observes: how it ended, the pair it
\* returned, the exception it raised
Observed(t) == <<t.pc, t.ret, t.exc>>

\* what the caller of scrape_with_playwright observes when page.goto raised:
\* the handler of lines 208-210, the finally clause, the return
NavigationFailureObserved ==
    LET failed == ScrapeError(Logged(NewTask(<<"a">>), "goto_failed"))
        out == PlaywrightOutcome(failed.pending)
    IN  Observed(IF out.kind = "return" THEN Returned(failed, out.val)
                 ELSE Raised(failed, out.exc))

\* C19: a timeout of the result-selector wait gives zero results, and what
\* the caller of the Dynamic retriever observes for it differs from what it
\* observes for a failure of page.goto.
C19_TimeoutDistinguishable ==
    \A t \in Tasks :
        IsSwp(t) /\ task[t].pc \in Finished /\ Did(t, "wait_timeout") =>
            /\ task[t].pc = "returned" /\ task[t].ret = Empty
            /\ Observed(task[t]) # NavigationFailureObserved

AcquireAttempts == {"launch", "launch_failed", "start_failed"}

Remediations == {"install", "install_failed"}

\* init_playwright raised at log position k: nothing of the acquisition
\* follows and the RuntimeError of lines 74 and 90 is pending
AcquisitionRaisedAt(t, k) ==
    /\ \A j \in Positions(t, AcquireAttempts \cup Remediations \cup {"driver_start"}) : j <= k
    /\ task[t].pending = [kind |-> "raise", val |-> Empty, exc |-> "RuntimeError"]

\* C20: init_playwright makes at most two attempts to launch a browser and
\* at most one remediation; the first failed attempt is followed by the
\* remediation, and a failed remediation or a failed second attempt raises
\* with no further attempt.
C20_AcquisitionRetriedOnce ==
    \A t \in Tasks : IsSwp(t) =>
        LET attempts == Positions(t, AcquireAttempts)
            failures == Positions(t, {"launch_failed", "start_failed"})
        IN  /\ Cardinality(attempts) <= 2
            /\ Cardinality(Positions(t, {"launch", "launch_failed"})) <= 2
            /\ Cardinality(Positions(t, Remediations)) <= 1
            /\ \A k \in failures :
                  IF \A j \in failures : k <= j
                  THEN IF k = Len(task[t].log)
                       THEN task[t].pc = "pw_install"
                       ELSE task[t].log[k + 1] \in Remediations
                  ELSE AcquisitionRaisedAt(t, k)
            /\ \A k \in Positions(t, {"install_failed"}) : AcquisitionRaisedAt(t, k)

\* the first launch failed, the install succeeded, the second launch failed
\* and init_playwright raised
C20_Witness ==
    \E t \in Tasks :
        /\ IsSwp(t)
        /\ Cardinality(Positions(t, {"launch_failed"})) = 2
        /\ Did(t, "install")
        /\ task[t].pending.kind = "raise"
        /\ task[t].pc \in Finished

----------------------------------------------------------------------------
(* Properties of the results of process_companies *)

\* the entry has its error field set (line 61) rather than None (line 69)
ErrorSet(r) == r.error # "None"

\* results only grows at its end
AppendOnly ==
    /\ Len(results') >= Len(results)
    /\ SubSeq(results', 1, Len(results)) = results

\* C21: in every state each entry of results with its error set has empty
\* matching and non_matching lists, and each entry without an error holds
\* exactly the pair its company's scraper returned; every step leaves the
\* entries already in results as they are and only appends.
C21_ResultsConsistent ==
    /\ [](entry = "process_companies" =>
            /\ Len(results) <= Len(companies)
            /\ \A k \in 1..Len(results) :
                  IF ErrorSet(results[k])
                  THEN /\ results[k].matching_results = <<>>
                       /\ results[k].non_matching_results = <<>>
                  ELSE /\ task[k].pc = "returned"
                       /\ results[k].matching_results = task[k].ret.m
                       /\ results[k].non_matching_results = task[k].ret.n)
    /\ [][entry = "process_companies" => AppendOnly]_vars

\* a batch of two in chunks of one is done: the first entry holds the record
\* its scraper returned and was kept while the second entry was appended
C21_Witness ==
    /\ entry = "process_companies" /\ opc = "done"
    /\ batch_size = 1 /\ Len(results) = 2
    /\ ~ErrorSet(results[1])
    /\ results[1].matching_results # <<>>
    /\ results[1].matching_results = task[1].ret.m
    /\ ~ErrorSet(results[2])
    /\ results[2].matching_results = <<>>

\* C22: for every sequence of names and every concurrency integer, zero and
\* negative ones included, process_companies does not raise, and when it
\* has returned every scraper it invoked has terminated and results is the
\* sequence it returns.
C22_BatchNeverFaults ==
    entry = "process_companies" =>
        /\ opc # "raised"
        /\ opc = "done" =>
              /\ \A t \in Tasks : task[t].pc # "none" => task[t].pc \in Finished
              /\ Len(results) <= Len(companies)

====
